---- MODULE Spec2Model ----
(***************************************************************************)
(* Model of the NEXI chat gateway, netlify/functions/nexichat.js:          *)
(* the process-wide knowledge cache and generation-client handle, the      *)
(* external store (five tables), and exports.handler cut at its awaits.    *)
(* A JavaScript string is a sequence of one-character strings; fixed       *)
(* template text is a single token.                                        *)
(***************************************************************************)
EXTENDS Integers, Sequences, FiniteSets, TLC

\* ------------------------------------------------------------------ bounds
NumInv == 2            \* invocation slots of the execution context
MaxRequests == 2       \* invocations started in one process lifetime

\* ------------------------------------------------------- JavaScript values
undefined == <<"#undefined">>
null == <<"#null">>
ObjectFn == <<"#function Object">>   \* Object.prototype.constructor

\* !v for a value that is a string, undefined, null or a function
Truthy(v) == v # undefined /\ v # null /\ v # <<>>

Min(a, b) == IF a < b THEN a ELSE b

\* String.prototype.substring(from, to), 0-based, to exclusive
\* the text kept whole, no substring taken
substringWhole(t, from, to) == t

substring(t, from, to) == SubSeq(t, from + 1, Min(to, Len(t)))

Upper == <<"A","B","C","D","E","F","G","H","I","J","K","L","M",
           "N","O","P","Q","R","S","T","U","V","W","X","Y","Z">>
Lower == <<"a","b","c","d","e","f","g","h","i","j","k","l","m",
           "n","o","p","q","r","s","t","u","v","w","x","y","z">>

toLowerChar(c) ==
    IF \E k \in 1..26 : Upper[k] = c
    THEN Lower[CHOOSE k \in 1..26 : Upper[k] = c]
    ELSE c

toLowerCase(t) == [k \in 1..Len(t) |-> toLowerChar(t[k])]

IsSpace(c) == c \in {" ", "\t", "\n"}

RECURSIVE trimStart(_)
trimStart(t) ==
    IF t # <<>> /\ IsSpace(Head(t)) THEN trimStart(Tail(t)) ELSE t

RECURSIVE trimEnd(_)
trimEnd(t) ==
    IF t # <<>> /\ IsSpace(t[Len(t)]) THEN trimEnd(SubSeq(t, 1, Len(t) - 1)) ELSE t

\* the lookup key taken without trimming
trimNothing(t) == t

trim(t) == trimEnd(trimStart(t))

\* ------------------------------------------------------- trivial responses
Welcome == <<"You're very welcome! Let me know if you need anything else.">>
Goodbye == <<"Goodbye! Have a great day.">>

KeyThanks == <<"t","h","a","n","k","s">>
KeyThankYou == <<"t","h","a","n","k"," ","y","o","u">>
KeyBye == <<"b","y","e">>
KeyGoodbye == <<"g","o","o","d","b","y","e">>
KeyConstructor == <<"c","o","n","s","t","r","u","c","t","o","r">>

TrivialKeys == {KeyThanks, KeyThankYou, KeyBye, KeyGoodbye}

\* trivialResponses[lower]: the object literal's own keys, then the keys
\* the literal inherits from Object.prototype
trivialResponses(lower) ==
    CASE lower = KeyThanks -> Welcome
      [] lower = KeyThankYou -> Welcome
      [] lower = KeyBye -> Goodbye
      [] lower = KeyGoodbye -> Goodbye
      [] lower = KeyConstructor -> ObjectFn
      [] OTHER -> undefined

\* JSON.stringify of an object field: a function-valued field is dropped
jsonField(v) == IF v = ObjectFn THEN undefined ELSE v

\* ---------------------------------------------------------------- the store
S1 == <<"s1">>
S2 == <<"s2">>
Tables == {"chat_history", "leads", "orders", "consultations", "tickets"}

\* a column receives null when the request's JSON carries no such field
column(v) == IF v = undefined THEN null ELSE v

\* created_at is assigned by the store, one tick per row, in arrival order
stamp(table, rows) ==
    [k \in 1..Len(rows) |-> [rows[k] EXCEPT !.created_at = Len(table) + k]]

\* a read without .eq('session_id', sessionId)
filterNone(rows, sessionId) == rows

RECURSIVE filter(_, _)
filter(rows, sessionId) ==
    IF rows = <<>> THEN <<>>
    ELSE IF Head(rows).session_id = sessionId
         THEN <<Head(rows)>> \o filter(Tail(rows), sessionId)
         ELSE filter(Tail(rows), sessionId)

\* one row put in its place in a sequence ordered by created_at, ascending
RECURSIVE place(_, _)
place(row, sorted) ==
    IF sorted = <<>> THEN <<row>>
    ELSE IF row.created_at < Head(sorted).created_at
         THEN <<row>> \o sorted
         ELSE <<Head(sorted)>> \o place(row, Tail(sorted))

RECURSIVE orderAscending(_)
orderAscending(rows) ==
    IF rows = <<>> THEN <<>>
    ELSE place(rows[Len(rows)], orderAscending(SubSeq(rows, 1, Len(rows) - 1)))

reverse(rows) == [k \in 1..Len(rows) |-> rows[Len(rows) + 1 - k]]

orderDescending(rows) == reverse(orderAscending(rows))

limit(rows, n) == SubSeq(rows, 1, Min(n, Len(rows)))

\* .select('role, content')
roleContent(rows) ==
    [k \in 1..Len(rows) |-> [role |-> rows[k].role, content |-> rows[k].content]]

\* the two rows of one chat exchange
turnPair(sessionId, message, reply) ==
    << [session_id |-> sessionId, role |-> "user",
        content |-> column(jsonField(message)), created_at |-> 0],
       [session_id |-> sessionId, role |-> "assistant",
        content |-> column(jsonField(reply)), created_at |-> 0] >>

\* loadHistory: every turn of the session, oldest first
selectAll(chat, sessionId) ==
    roleContent(orderAscending(filter(chat, sessionId)))

HistoryLimit == 12

\* the memory read of a chat turn
selectMemory(chat, sessionId) ==
    roleContent(limit(orderAscending(filter(chat, sessionId)), HistoryLimit))

\* ------------------------------------------------------- prompt assembly
\* the personalization clause of the persona
userContext(userName) ==
    IF Truthy(userName)
    THEN <<"The user's name is ">> \o userName
         \o <<". Address them by name naturally occasionally.">>
    ELSE <<>>

PersonaHead == "You are NEXI, the official AI assistant of XIS EDGE."
PersonaBody == "Your core purpose ... --- CORE KNOWLEDGE ---"
KnowledgeHeader == "--- KNOWLEDGE BASE ---"
RulesBlock == "--- RULES --- 1. NO external knowledge. 2. Never say I am a bot."

brandPersona(userName, knowledgeBase) ==
    <<PersonaHead>> \o userContext(userName) \o <<PersonaBody, KnowledgeHeader>>
    \o knowledgeBase \o <<RulesBlock>>

Acknowledgment == <<"Understood. I am Blu. I will follow all rules.">>

\* the history turns sent newest first
pastMessagesReversed(history) ==
    IF history.error THEN <<>>
    ELSE [k \in 1..Len(history.data) |->
            [role |-> IF history.data[Len(history.data) + 1 - k].role = "user"
                      THEN "user" ELSE "model",
             text |-> history.data[Len(history.data) + 1 - k].content]]

\* history ? history.map(...) : []   (data is null exactly when the read erred)
pastMessages(history) ==
    IF history.error THEN <<>>
    ELSE [k \in 1..Len(history.data) |->
            [role |-> IF history.data[k].role = "user" THEN "user" ELSE "model",
             text |-> history.data[k].content]]

contents(userName, knowledgeBase, history, message) ==
    << [role |-> "user", text |-> brandPersona(userName, knowledgeBase)],
       [role |-> "model", text |-> Acknowledgment] >>
    \o pastMessages(history)
    \o << [role |-> "user", text |-> message] >>

\* --------------------------------------------------- response normalization
BREAK == <<"-","-","-","B","R","E","A","K","-","-","-">>

\* replace without the g flag: the first match only
replaceBreakOnce(t) ==
    LET at(k) == k + Len(BREAK) - 1 <= Len(t)
                 /\ SubSeq(t, k, k + Len(BREAK) - 1) = BREAK
    IN IF \E k \in 1..Len(t) : at(k)
       THEN LET k == CHOOSE j \in 1..Len(t) :
                       at(j) /\ \A m \in 1..(j - 1) : ~at(m)
            IN SubSeq(t, 1, k - 1) \o <<"\n", "\n">>
               \o SubSeq(t, k + Len(BREAK), Len(t))
       ELSE t

\* responseText.replace(/---BREAK---/g, '\n\n'): leftmost matches, no overlap
RECURSIVE replaceBreak(_)
replaceBreak(t) ==
    IF Len(t) < Len(BREAK) THEN t
    ELSE IF SubSeq(t, 1, Len(BREAK)) = BREAK
         THEN <<"\n", "\n">> \o replaceBreak(SubSeq(t, Len(BREAK) + 1, Len(t)))
         ELSE <<Head(t)>> \o replaceBreak(Tail(t))

EmptyResponse == "The AI model returned an empty or blocked response."

\* lines 319-333: the two extraction paths, then the emptiness test.
\* candidates.shape: "absent" (no candidates[0].content), "noparts" (content
\* without parts[0]) or "text"; response.shape: "absent" or "text".
extract(result) ==
    IF result.candidates.shape # "absent"
    THEN IF result.candidates.shape = "noparts"
         THEN [threw |-> TRUE, message |-> "TypeError", text |-> <<>>]
         ELSE IF Truthy(result.candidates.text)
              THEN [threw |-> FALSE, message |-> "", text |-> result.candidates.text]
              ELSE [threw |-> TRUE, message |-> EmptyResponse, text |-> <<>>]
    ELSE IF result.response.shape = "text" /\ Truthy(result.response.text)
         THEN [threw |-> FALSE, message |-> "", text |-> result.response.text]
         ELSE [threw |-> TRUE, message |-> EmptyResponse, text |-> <<>>]

\* ------------------------------------------------------------------ inputs
Inv == 1..NumInv
Sessions == {S1, S2}

Hi == <<"h","i">>
ByeSpaced == <<" ","B","y","e"," ">>
ThankYouCaps == <<"T","H","A","N","K"," ","Y","O","U">>
Messages == {undefined, <<>>, Hi, ByeSpaced, ThankYouCaps, KeyConstructor}

UserName == <<"A","d","a">>
Password == <<"p","w">>
WrongPassword == <<"p","W">>

SaveActions == {"saveLead", "saveOrder", "saveConsultation", "saveTicket"}

\* every save action writing to the first action's table
tableOfLeads(action) == "leads"

tableOf(action) ==
    CASE action = "saveLead" -> "leads"
      [] action = "saveOrder" -> "orders"
      [] action = "saveConsultation" -> "consultations"
      [] action = "saveTicket" -> "tickets"

\* the userDetails object a form submits
userDetails ==
    [name |-> <<"Ada">>, email |-> <<"a@x.io">>, phone |-> undefined,
     plan |-> <<"pro">>, cycle |-> <<"yearly">>, price |-> <<"120">>,
     domain |-> <<"x.io">>, serviceType |-> <<"brand">>,
     businessName |-> <<"X">>, budget |-> undefined, details |-> <<"logo">>,
     refLink |-> undefined, category |-> <<"billing">>, ticketId |-> <<"T-1">>]

\* the row each save action inserts
recordRow(action, sessionId) ==
    CASE action = "saveLead" ->
           [session_id |-> sessionId, name |-> column(userDetails.name),
            email |-> column(userDetails.email), phone |-> column(userDetails.phone),
            created_at |-> 0]
      [] action = "saveOrder" ->
           [session_id |-> sessionId, plan |-> column(userDetails.plan),
            cycle |-> column(userDetails.cycle), amount |-> column(userDetails.price),
            domain |-> column(userDetails.domain),
            customer_name |-> column(userDetails.name),
            customer_email |-> column(userDetails.email),
            customer_phone |-> column(userDetails.phone), created_at |-> 0]
      [] action = "saveConsultation" ->
           [session_id |-> sessionId,
            service_type |-> column(userDetails.serviceType),
            business_name |-> column(userDetails.businessName),
            budget |-> column(userDetails.budget),
            project_details |-> column(userDetails.details),
            reference_link |-> column(userDetails.refLink),
            customer_name |-> column(userDetails.name),
            customer_email |-> column(userDetails.email),
            customer_phone |-> column(userDetails.phone), created_at |-> 0]
      [] action = "saveTicket" ->
           [session_id |-> sessionId, category |-> column(userDetails.category),
            description |-> column(userDetails.details),
            email |-> column(userDetails.email), name |-> column(userDetails.name),
            phone |-> column(userDetails.phone),
            ticket_number |-> column(userDetails.ticketId), created_at |-> 0]

\* event.httpMethod and the fields of JSON.parse(event.body); bodyOk is false
\* for a body JSON.parse rejects
Request(method, bodyOk, sessionId, action, message, details, name, flag, secret) ==
    [httpMethod |-> method, bodyOk |-> bodyOk, sessionId |-> sessionId,
     action |-> action, message |-> message, userDetails |-> details,
     userName |-> name, loadHistory |-> flag, adminSecret |-> secret]

ChatRequests ==
    { Request("POST", TRUE, s, "undefined", m, "undefined", undefined, FALSE,
              undefined) : s \in {undefined, S1}, m \in Messages }
    \cup { Request("POST", TRUE, S2, "undefined", m, "undefined", undefined, FALSE,
                   undefined) : m \in {ByeSpaced} }
    \cup { Request("POST", TRUE, S1, a, m, "undefined", UserName, f, undefined) :
             a \in {"undefined", "other"}, m \in {Hi, ThankYouCaps}, f \in BOOLEAN }

SaveRequests ==
    { Request("POST", TRUE, s, a, m, d, undefined, FALSE, undefined) :
        s \in {undefined, S1}, a \in SaveActions, m \in {undefined, Hi},
        d \in {"undefined", "object"} }

ReadRequests ==
    { Request("POST", TRUE, s, "loadHistory", undefined, "undefined", undefined,
              FALSE, undefined) : s \in {undefined, S1, S2} }
    \cup { Request("POST", TRUE, s, "getDashboardData", undefined, "undefined",
                   undefined, FALSE, k) :
             s \in {undefined, S1}, k \in {undefined, Password, WrongPassword} }

OtherRequests ==
    { Request(h, b, undefined, "undefined", undefined, "undefined", undefined,
              FALSE, undefined) :
        h \in {"OPTIONS", "GET", "POST"}, b \in {FALSE} }

Requests == ChatRequests \cup SaveRequests \cup ReadRequests \cup OtherRequests

\* what the knowledge document's host may answer
Doc1 == <<"k","b","1">>
Docs == {<<>>, Doc1}
FetchOutcomes == {"throws", "404", "200"}

\* what generateContent may resolve to (or reject)
Ok == <<"o","k">>
Broken == <<"a">> \o BREAK \o <<"b", "-","-","-","B","R","E","A","K">> \o BREAK

Result(rejects, cshape, ctext, rshape, rtext) ==
    [rejects |-> rejects, candidates |-> [shape |-> cshape, text |-> ctext],
     response |-> [shape |-> rshape, text |-> rtext]]

NoResult == Result(FALSE, "absent", undefined, "absent", undefined)

GenResults ==
    { Result(TRUE, "absent", undefined, "absent", undefined),
      Result(FALSE, "text", Ok, "absent", undefined),
            Result(FALSE, "text", <<>>, "text", Ok),
      Result(FALSE, "text", undefined, "absent", undefined),
      Result(FALSE, "noparts", undefined, "absent", undefined),
      Result(FALSE, "absent", undefined, "text", Broken),
      Result(FALSE, "absent", undefined, "text", <<>>),
      NoResult }

\* ------------------------------------------------------------------- state
VARIABLES
    ai,               \* the generation client handle is constructed
    cachedKnowledge,  \* null, or the cached knowledge text
    env,              \* the deployment: process.env.ADMIN_PASSWORD, and
                      \* whether import('@google/genai') resolves
    db,               \* the store: table name -> rows in arrival order
    pc,               \* per invocation: the await it is suspended at
    req,              \* per invocation: the request
    loc,              \* per invocation: the handler's live local variables
    resp,             \* per invocation: the response returned
    log,              \* per invocation: the external calls issued, in order
    turns,            \* per session: chat turns answered with a reply / stored
    started           \* invocations started so far

vars == <<ai, cachedKnowledge, env, db, pc, req, loc, resp, log,
          turns, started>>

Digit == <<"1","2","3","4","5","6","7","8","9">>

\* the turn pairs earlier process lifetimes left in chat_history
RECURSIVE seedPairs(_)
seedPairs(n) ==
    IF n = 0 THEN <<>>
    ELSE seedPairs(n - 1) \o turnPair(S1, <<"q", Digit[n]>>, <<"r", Digit[n]>>)

\* a store that holds one exchange of S2, then n exchanges of S1
seedChat(n) == stamp(<<>>, turnPair(S2, Hi, Ok) \o seedPairs(n))

\* one exchange more than the memory read's limit covers
LongHistory == HistoryLimit \div 2 + 1

NoResponse == [statusCode |-> 0, kind |-> "none", value |-> <<>>]
Response(status, kind, value) ==
    [statusCode |-> status, kind |-> kind, value |-> value]

NoRequest ==
    Request("none", FALSE, undefined, "undefined", undefined, "undefined",
            undefined, FALSE, undefined)

NoHistory == [error |-> FALSE, data |-> <<>>]
Locals ==
    [history |-> NoHistory, knowledgeBase |-> <<>>, contents |-> <<>>,
     result |-> NoResult, responseText |-> <<>>, status |-> 0, dash |-> <<>>,
     readError |-> FALSE]

\* a fresh process of a healthy deployment
Fresh ==
    /\ ai = FALSE
    /\ cachedKnowledge = null
    /\ env = [ADMIN_PASSWORD |-> Password, genai |-> TRUE]
    /\ pc = [i \in Inv |-> "idle"]
    /\ req = [i \in Inv |-> NoRequest]
    /\ loc = [i \in Inv |-> Locals]
    /\ resp = [i \in Inv |-> NoResponse]
    /\ log = [i \in Inv |-> <<>>]
    /\ started = 0

\* over an empty store
Init ==
    /\ Fresh
    /\ db = [t \in Tables |-> <<>>]
    /\ turns = [s \in Sessions |-> [answered |-> 0, stored |-> 0]]

\* over a store in which earlier process lifetimes left a long conversation
InitMemory ==
    /\ Fresh
    /\ db = [t \in Tables |->
               IF t = "chat_history" THEN seedChat(LongHistory) ELSE <<>>]
    /\ turns = [s \in Sessions |->
                  IF s = S1 THEN [answered |-> LongHistory, stored |-> LongHistory]
                  ELSE [answered |-> 1, stored |-> 1]]

\* ------------------------------------------------------- control transfers
free(i) == pc[i] \in {"idle", "done"}

\* the outcome of a run of handler code up to its next return or await:
\* where it stops, the response if it returned, the external call it issued
returns(status, kind, value) ==
    [pc |-> "done", resp |-> Response(status, kind, value), calls |-> <<>>]

awaits(label, op, target) ==
    [pc |-> label, resp |-> NoResponse, calls |-> << <<op, target>> >>]

goto(i, step) ==
    /\ pc' = [pc EXCEPT ![i] = step.pc]
    /\ resp' = [resp EXCEPT ![i] = step.resp]
    /\ log' = [log EXCEPT ![i] = @ \o step.calls]

\* ------------------------------------------------------------- the handler
\* route with the session check placed after the save actions
routeSessionLate(r, password) ==
    IF ~r.bodyOk THEN returns(500, "error", "Unexpected token in JSON")
    ELSE IF r.action \in SaveActions
    THEN IF r.userDetails = "undefined"
         THEN returns(500, "error", "Cannot read properties of undefined")
         ELSE awaits("insert_record", "insert", tableOf(r.action))
    ELSE IF ~Truthy(r.sessionId) THEN returns(400, "error", "Missing Session ID")
    ELSE IF r.loadHistory \/ r.action = "loadHistory"
    THEN awaits("select_all", "select", "chat_history")
    ELSE IF r.action = "getDashboardData"
    THEN IF r.adminSecret # password
         THEN returns(401, "error", "Invalid Password")
         ELSE awaits("select_leads", "select", "leads")
    ELSE IF ~Truthy(r.message) THEN returns(400, "error", "Missing Message")
    ELSE IF Truthy(trivialResponses(trim(toLowerCase(r.message))))
    THEN awaits("insert_trivial", "insert", "chat_history")
    ELSE awaits("select_memory", "select", "chat_history")

\* route that reads the action field alone, the loadHistory flag ignored
routeActionOnly(r, password) ==
    IF ~r.bodyOk THEN returns(500, "error", "Unexpected token in JSON")
    ELSE IF ~Truthy(r.sessionId) THEN returns(400, "error", "Missing Session ID")
    ELSE IF r.action \in SaveActions
    THEN IF r.userDetails = "undefined"
         THEN returns(500, "error", "Cannot read properties of undefined")
         ELSE awaits("insert_record", "insert", tableOf(r.action))
    ELSE IF r.action = "loadHistory"
    THEN awaits("select_all", "select", "chat_history")
    ELSE IF r.action = "getDashboardData"
    THEN IF r.adminSecret # password
         THEN returns(401, "error", "Invalid Password")
         ELSE awaits("select_leads", "select", "leads")
    ELSE IF ~Truthy(r.message) THEN returns(400, "error", "Missing Message")
    ELSE IF Truthy(trivialResponses(trim(toLowerCase(r.message))))
    THEN awaits("insert_trivial", "insert", "chat_history")
    ELSE awaits("select_memory", "select", "chat_history")

\* route that starts the dashboard reads without comparing the secret
routeSecretUnchecked(r, password) ==
    IF ~r.bodyOk THEN returns(500, "error", "Unexpected token in JSON")
    ELSE IF ~Truthy(r.sessionId) THEN returns(400, "error", "Missing Session ID")
    ELSE IF r.action \in SaveActions
    THEN IF r.userDetails = "undefined"
         THEN returns(500, "error", "Cannot read properties of undefined")
         ELSE awaits("insert_record", "insert", tableOf(r.action))
    ELSE IF r.loadHistory \/ r.action = "loadHistory"
    THEN awaits("select_all", "select", "chat_history")
    ELSE IF r.action = "getDashboardData"
    THEN awaits("select_leads", "select", "leads")
    ELSE IF ~Truthy(r.message) THEN returns(400, "error", "Missing Message")
    ELSE IF Truthy(trivialResponses(trim(toLowerCase(r.message))))
    THEN awaits("insert_trivial", "insert", "chat_history")
    ELSE awaits("select_memory", "select", "chat_history")

\* lines 55-245: from JSON.parse to the first await or return
route(r, password) ==
    IF ~r.bodyOk THEN returns(500, "error", "Unexpected token in JSON")
    ELSE IF ~Truthy(r.sessionId) THEN returns(400, "error", "Missing Session ID")
    ELSE IF r.action \in SaveActions
    THEN IF r.userDetails = "undefined"
         THEN returns(500, "error", "Cannot read properties of undefined")
         ELSE awaits("insert_record", "insert", tableOf(r.action))
    ELSE IF r.loadHistory \/ r.action = "loadHistory"
    THEN awaits("select_all", "select", "chat_history")
    ELSE IF r.action = "getDashboardData"
    THEN IF r.adminSecret # password
         THEN returns(401, "error", "Invalid Password")
         ELSE awaits("select_leads", "select", "leads")
    ELSE IF ~Truthy(r.message) THEN returns(400, "error", "Missing Message")
    ELSE IF Truthy(trivialResponses(trim(toLowerCase(r.message))))
    THEN awaits("insert_trivial", "insert", "chat_history")
    ELSE awaits("select_memory", "select", "chat_history")

\* lines 34-53: CORS and method checks, then the client's lazy construction
handler(i, r) ==
    /\ free(i)
    /\ \A j \in Inv : j < i => ~free(j)
    /\ started < MaxRequests
    /\ started' = started + 1
    /\ req' = [req EXCEPT ![i] = r]
    /\ loc' = [loc EXCEPT ![i] = Locals]
    /\ LET step ==
             IF r.httpMethod = "OPTIONS" THEN returns(200, "text", "")
             ELSE IF r.httpMethod # "POST"
             THEN returns(405, "text", "Method Not Allowed")
             ELSE IF ~ai THEN awaits("import", "import", "@google/genai")
             ELSE route(r, env.ADMIN_PASSWORD)
       IN /\ pc' = [pc EXCEPT ![i] = step.pc]
          /\ resp' = [resp EXCEPT ![i] = step.resp]
          /\ log' = [log EXCEPT ![i] = step.calls]
    /\ UNCHANGED <<ai, cachedKnowledge, env, db, turns>>

\* lines 51-52: the dynamic import settles; a rejection leaves the handler
\* before its try block
importReturn(i) ==
    /\ pc[i] = "import"
    /\ IF env.genai
       THEN /\ ai' = TRUE
            /\ goto(i, route(req[i], env.ADMIN_PASSWORD))
       ELSE /\ ai' = ai
            /\ goto(i, [pc |-> "done", calls |-> <<>>,
                        resp |-> Response(0, "uncaught", "Cannot find package")])
    /\ UNCHANGED <<cachedKnowledge, env, db, req, loc, turns, started>>

\* the store applies an insert: all rows of the request, or none on error
insert(table, rows, ok) ==
    IF ok THEN [db EXCEPT ![table] = @ \o stamp(@, rows)] ELSE db

\* lines 65-144: the save action's insert settles
insertRecordReturn(i, ok) ==
    /\ pc[i] = "insert_record"
    /\ db' = insert(tableOf(req[i].action),
                    <<recordRow(req[i].action, req[i].sessionId)>>, ok)
    /\ goto(i, IF req[i].action = "saveTicket" /\ ~ok
               THEN returns(500, "error", "Failed to save ticket")
               ELSE returns(200, "success", TRUE))
    /\ UNCHANGED <<ai, cachedKnowledge, env, req, loc, turns, started>>

\* the full-history read without the throw of line 156
loadHistoryReturnLenient(i, ok) ==
    /\ pc[i] = "select_all"
    /\ loc' = [loc EXCEPT ![i].readError = ~ok]
    /\ goto(i, returns(200, "history",
                       IF ok THEN selectAll(db.chat_history, req[i].sessionId)
                       ELSE <<>>))
    /\ UNCHANGED <<ai, cachedKnowledge, env, db, req, turns, started>>

\* lines 149-163: the full-history read settles; readError is the error
\* field of the read's result
loadHistoryReturn(i, ok) ==
    /\ pc[i] = "select_all"
    /\ loc' = [loc EXCEPT ![i].readError = ~ok]
    /\ goto(i, IF ok
               THEN returns(200, "history",
                            selectAll(db.chat_history, req[i].sessionId))
               ELSE returns(500, "error", "store error"))
    /\ UNCHANGED <<ai, cachedKnowledge, env, db, req, turns, started>>

\* lines 179-214: the four dashboard reads, one after the other
dashboardTable(label) ==
    CASE label = "select_leads" -> "leads"
      [] label = "select_orders" -> "orders"
      [] label = "select_tickets" -> "tickets"
      [] label = "select_consultations" -> "consultations"

dashboardReturn(i, ok) ==
    /\ pc[i] \in {"select_leads", "select_orders", "select_tickets",
                  "select_consultations"}
    /\ LET read == [error |-> ~ok,
                    data |-> IF ok THEN orderDescending(db[dashboardTable(pc[i])])
                             ELSE <<>>]
           dash == Append(loc[i].dash, read)
       IN /\ loc' = [loc EXCEPT
                        ![i].dash =
                            IF pc[i] = "select_consultations" THEN <<>> ELSE dash,
                        ![i].readError = \E k \in 1..Len(dash) : dash[k].error]
          /\ goto(i, CASE pc[i] = "select_leads" ->
                            awaits("select_orders", "select", "orders")
                       [] pc[i] = "select_orders" ->
                            awaits("select_tickets", "select", "tickets")
                       [] pc[i] = "select_tickets" ->
                            awaits("select_consultations", "select", "consultations")
                       [] pc[i] = "select_consultations" ->
                            IF \E k \in 1..4 : dash[k].error
                            THEN returns(500, "error", "Database Error")
                            ELSE returns(200, "dashboard",
                                         [leads |-> dash[1].data,
                                          orders |-> dash[2].data,
                                          tickets |-> dash[3].data,
                                          consultations |-> dash[4].data]))
    /\ UNCHANGED <<ai, cachedKnowledge, env, db, req, turns, started>>

\* the ledger of chat turns: answered with 200 and a reply / pair stored
answeredTurn(sessionId, ok) ==
    [turns EXCEPT ![sessionId] =
        [answered |-> @.answered + 1,
         stored |-> IF ok THEN @.stored + 1 ELSE @.stored]]

\* lines 230-237: the trivial turn's insert settles
insertTrivialReturn(i, ok) ==
    /\ pc[i] = "insert_trivial"
    /\ LET reply == trivialResponses(trim(toLowerCase(req[i].message)))
       IN /\ db' = insert("chat_history",
                          turnPair(req[i].sessionId, req[i].message, reply), ok)
          /\ goto(i, returns(200, "reply", jsonField(reply)))
    /\ turns' = answeredTurn(req[i].sessionId, ok)
    /\ UNCHANGED <<ai, cachedKnowledge, env, req, loc, started>>

\* lines 255-316: the prompt is assembled and the generation call issued
generate(i, history, knowledgeBase) ==
    /\ loc' = [loc EXCEPT ![i].history = history,
                          ![i].readError = history.error,
                          ![i].knowledgeBase = knowledgeBase,
                          ![i].contents = contents(req[i].userName, knowledgeBase,
                                                   history, req[i].message)]
    /\ goto(i, awaits("generate", "generate", "gemini-2.5-flash"))

\* the memory read with its error thrown to the catch
selectMemoryReturnStrict(i, ok) ==
    /\ pc[i] = "select_memory"
    /\ LET history == [error |-> ~ok,
                       data |-> IF ok
                                THEN selectMemory(db.chat_history, req[i].sessionId)
                                ELSE <<>>]
       IN IF ~ok
          THEN /\ loc' = [loc EXCEPT ![i].history = history, ![i].readError = TRUE]
               /\ goto(i, returns(500, "error", "store error"))
          ELSE IF Truthy(cachedKnowledge)
          THEN generate(i, history, cachedKnowledge)
          ELSE /\ loc' = [loc EXCEPT ![i].history = history,
                                     ![i].readError = ~ok]
               /\ goto(i, awaits("fetch", "fetch", "knowledge"))
    /\ UNCHANGED <<ai, cachedKnowledge, env, db, req, turns, started>>

\* lines 240-253: the memory read settles; getKnowledgeBase runs to its
\* cached return or to its fetch (line 13-16)
selectMemoryReturn(i, ok) ==
    /\ pc[i] = "select_memory"
    /\ LET history == [error |-> ~ok,
                       data |-> IF ok
                                THEN selectMemory(db.chat_history, req[i].sessionId)
                                ELSE <<>>]
       IN IF Truthy(cachedKnowledge)
          THEN generate(i, history, cachedKnowledge)
          ELSE /\ loc' = [loc EXCEPT ![i].history = history,
                                     ![i].readError = ~ok]
               /\ goto(i, awaits("fetch", "fetch", "knowledge"))
    /\ UNCHANGED <<ai, cachedKnowledge, env, db, req, turns, started>>

\* fetchReturn without the status test of line 17
fetchReturnAnyStatus(i, outcome) ==
    /\ pc[i] = "fetch"
    /\ IF outcome # "throws"
       THEN /\ loc' = [loc EXCEPT ![i].status = IF outcome = "200" THEN 200 ELSE 404]
            /\ goto(i, awaits("text", "text", "knowledge"))
       ELSE generate(i, loc[i].history, <<>>)
    /\ UNCHANGED <<ai, cachedKnowledge, env, db, req, turns, started>>

\* getKnowledgeBase without its try: a failed fetch ends the request
fetchReturnAbort(i, outcome) ==
    /\ pc[i] = "fetch"
    /\ IF outcome = "200"
       THEN /\ loc' = [loc EXCEPT ![i].status = 200]
            /\ goto(i, awaits("text", "text", "knowledge"))
       ELSE /\ loc' = loc
            /\ goto(i, returns(500, "error", "fetch failed"))
    /\ UNCHANGED <<ai, cachedKnowledge, env, db, req, turns, started>>

\* lines 16-17, 21-24: the fetch settles
fetchReturn(i, outcome) ==
    /\ pc[i] = "fetch"
    /\ IF outcome = "200"
       THEN /\ loc' = [loc EXCEPT ![i].status = 200]
            /\ goto(i, awaits("text", "text", "knowledge"))
       ELSE generate(i, loc[i].history, <<>>)
    /\ UNCHANGED <<ai, cachedKnowledge, env, db, req, turns, started>>

KnowledgeLimit == 20000

\* lines 18-24: the body read settles
textReturn(i, ok, text) ==
    /\ pc[i] = "text"
    /\ IF ok
       THEN /\ cachedKnowledge' = substring(text, 0, KnowledgeLimit)
            /\ generate(i, loc[i].history, substring(text, 0, KnowledgeLimit))
       ELSE /\ cachedKnowledge' = cachedKnowledge
            /\ generate(i, loc[i].history, <<>>)
    /\ UNCHANGED <<ai, env, db, req, turns, started>>

\* lines 313-341: the generation call settles; extraction, marker
\* replacement, and the turn pair's insert is issued
generateReturn(i, result) ==
    /\ pc[i] = "generate"
    /\ LET got == extract(result)
       IN /\ loc' = [loc EXCEPT ![i] =
                [Locals EXCEPT !.result = result,
                               !.readError = loc[i].readError,
                               !.responseText =
                                   IF result.rejects \/ got.threw THEN <<>>
                                   ELSE replaceBreak(got.text)]]
          /\ goto(i, IF result.rejects
                     THEN returns(500, "error", "generateContent failed")
                     ELSE IF got.threw THEN returns(500, "error", got.message)
                     ELSE awaits("insert_chat", "insert", "chat_history"))
    /\ UNCHANGED <<ai, cachedKnowledge, env, db, req, turns, started>>

\* the exchange saved as two inserts, the second lost when the store errs
insertChatReturnSplit(i, ok) ==
    /\ pc[i] = "insert_chat"
    /\ db' = insert("chat_history",
                    IF ok THEN turnPair(req[i].sessionId, req[i].message,
                                        loc[i].responseText)
                    ELSE <<turnPair(req[i].sessionId, req[i].message,
                                    loc[i].responseText)[1]>>,
                    TRUE)
    /\ goto(i, returns(200, "reply", loc[i].responseText))
    /\ turns' = answeredTurn(req[i].sessionId, ok)
    /\ UNCHANGED <<ai, cachedKnowledge, env, req, loc, started>>

\* the turn pair's insert with its error thrown to the catch
insertChatReturnStrict(i, ok) ==
    /\ pc[i] = "insert_chat"
    /\ db' = insert("chat_history",
                    turnPair(req[i].sessionId, req[i].message, loc[i].responseText),
                    ok)
    /\ goto(i, IF ok THEN returns(200, "reply", loc[i].responseText)
               ELSE returns(500, "error", "store error"))
    /\ turns' = IF ok THEN answeredTurn(req[i].sessionId, ok) ELSE turns
    /\ UNCHANGED <<ai, cachedKnowledge, env, req, loc, started>>

\* lines 338-347: the turn pair's insert settles
insertChatReturn(i, ok) ==
    /\ pc[i] = "insert_chat"
    /\ db' = insert("chat_history",
                    turnPair(req[i].sessionId, req[i].message, loc[i].responseText),
                    ok)
    /\ goto(i, returns(200, "reply", loc[i].responseText))
    /\ turns' = answeredTurn(req[i].sessionId, ok)
    /\ UNCHANGED <<ai, cachedKnowledge, env, req, loc, started>>

\* ------------------------------------------------------------ specification
\* one invocation at a time: a request arrives when the context is quiet
quiet == \A j \in Inv : free(j)

Next ==
    \/ \E i \in Inv, r \in Requests : quiet /\ handler(i, r)
    \/ \E i \in Inv : importReturn(i)
    \/ \E i \in Inv, ok \in BOOLEAN : insertRecordReturn(i, ok)
    \/ \E i \in Inv, ok \in BOOLEAN : loadHistoryReturn(i, ok)
    \/ \E i \in Inv, ok \in BOOLEAN : dashboardReturn(i, ok)
    \/ \E i \in Inv, ok \in BOOLEAN : insertTrivialReturn(i, ok)
    \/ \E i \in Inv, ok \in BOOLEAN : selectMemoryReturn(i, ok)
    \/ \E i \in Inv, outcome \in FetchOutcomes : fetchReturn(i, outcome)
    \/ \E i \in Inv, ok \in BOOLEAN, text \in Docs : textReturn(i, ok, text)
    \/ \E i \in Inv, result \in GenResults : generateReturn(i, result)
    \/ \E i \in Inv, ok \in BOOLEAN : insertChatReturn(i, ok)

Spec == Init /\ [][Next]_vars

SpecMemory == InitMemory /\ [][Next]_vars

\* the deployments: ADMIN_PASSWORD set or not, the client's package
\* installed or not
Deployments == [ADMIN_PASSWORD : {Password, undefined}, genai : BOOLEAN]

\* a fresh process of any deployment, over an empty store
InitDeploy ==
    /\ ai = FALSE
    /\ cachedKnowledge = null
    /\ env \in Deployments
    /\ pc = [i \in Inv |-> "idle"]
    /\ req = [i \in Inv |-> NoRequest]
    /\ loc = [i \in Inv |-> Locals]
    /\ resp = [i \in Inv |-> NoResponse]
    /\ log = [i \in Inv |-> <<>>]
    /\ started = 0
    /\ db = [t \in Tables |-> <<>>]
    /\ turns = [s \in Sessions |-> [answered |-> 0, stored |-> 0]]

SpecDeploy == InitDeploy /\ [][Next]_vars

\* a knowledge document one character longer than the snapshot's limit
LongDoc == [k \in 1..(KnowledgeLimit + 1) |-> IF k <= KnowledgeLimit THEN "x" ELSE "y"]
KnowledgeDocs == {Doc1, LongDoc}

\* chat turns that reach the knowledge retrieval
KnowledgeRequests ==
    { Request("POST", TRUE, S1, "undefined", Hi, "undefined", n, FALSE, undefined) :
        n \in {undefined, UserName} }

\* chat turns alone, over a knowledge source that serves documents short and
\* long
NextKnowledge ==
    \/ \E i \in Inv, r \in KnowledgeRequests : quiet /\ handler(i, r)
    \/ \E i \in Inv : importReturn(i)
    \/ \E i \in Inv, ok \in BOOLEAN : selectMemoryReturn(i, ok)
    \/ \E i \in Inv, outcome \in FetchOutcomes : fetchReturn(i, outcome)
    \/ \E i \in Inv, ok \in BOOLEAN, text \in KnowledgeDocs : textReturn(i, ok, text)
    \/ \E i \in Inv, result \in GenResults : generateReturn(i, result)
    \/ \E i \in Inv, ok \in BOOLEAN : insertChatReturn(i, ok)

SpecKnowledge == Init /\ [][NextKnowledge]_vars

\* what the knowledge source may serve over time
Doc2 == <<"k","b","2">>
ChangingDocs == {<<>>, Doc1, Doc2}

\* chat turns on a reused execution context, a request arriving while
\* another is suspended at an await
NextConcurrent ==
    \/ \E i \in Inv, r \in KnowledgeRequests : handler(i, r)
    \/ \E i \in Inv : importReturn(i)
    \/ \E i \in Inv, ok \in BOOLEAN : selectMemoryReturn(i, ok)
    \/ \E i \in Inv, outcome \in FetchOutcomes : fetchReturn(i, outcome)
    \/ \E i \in Inv, ok \in BOOLEAN, text \in ChangingDocs : textReturn(i, ok, text)
    \/ \E i \in Inv, result \in GenResults : generateReturn(i, result)
    \/ \E i \in Inv, ok \in BOOLEAN : insertChatReturn(i, ok)

SpecConcurrent == Init /\ [][NextConcurrent]_vars

\* ------------------------------------------------------------------ claims
issued(i, op, target) == \E k \in 1..Len(log[i]) : log[i][k] = <<op, target>>

\* the external calls of an invocation, the client's import left out
calls(i) == SelectSeq(log[i], LAMBDA c : c[1] # "import")

\* getKnowledgeBase has just returned to invocation i
knowledgeReturned(i) == pc[i] = "generate"

\* C1, on every state: a call that fetched nothing returned the non-empty
\* cached snapshot; a call whose fetch failed returned the empty text and the
\* cache is still unset
C1_Returned ==
    \A i \in Inv : knowledgeReturned(i) =>
        IF ~issued(i, "fetch", "knowledge")
        THEN Truthy(cachedKnowledge) /\ loc[i].knowledgeBase = cachedKnowledge
        ELSE IF ~issued(i, "text", "knowledge")
        THEN loc[i].knowledgeBase = <<>> /\ ~Truthy(cachedKnowledge)
        ELSE \/ loc[i].knowledgeBase = cachedKnowledge
             \/ loc[i].knowledgeBase = <<>> /\ ~Truthy(cachedKnowledge)

\* C1, on every step: a call fetches exactly when the cache is unset; a failed
\* fetch or body read leaves the cache as it was; the cache is assigned only
\* by a body read that followed a status 200; a non-empty snapshot stays
C1_Step ==
    /\ \A i \in Inv :
         /\ (pc[i] = "select_memory" /\ pc'[i] # "select_memory") =>
               IF Truthy(cachedKnowledge)
               THEN pc'[i] = "generate" /\ loc'[i].knowledgeBase = cachedKnowledge
               ELSE pc'[i] = "fetch"
         /\ (pc[i] = "fetch" /\ pc'[i] = "generate") =>
               loc'[i].knowledgeBase = <<>> /\ cachedKnowledge' = cachedKnowledge
         /\ (pc[i] = "text" /\ pc'[i] = "generate") =>
               \/ cachedKnowledge' = loc'[i].knowledgeBase
               \/ loc'[i].knowledgeBase = <<>> /\ cachedKnowledge' = cachedKnowledge
    /\ cachedKnowledge' # cachedKnowledge =>
         \E i \in Inv : pc[i] = "text" /\ loc[i].status = 200 /\ pc'[i] = "generate"
    /\ Truthy(cachedKnowledge) => cachedKnowledge' = cachedKnowledge

\* C1: in a sequence of getKnowledgeBase calls a failed fetch returns the
\* empty text and leaves the cache unset, so that the next call fetches
\* again; once a fetch succeeded with non-empty text every later call returns
\* that snapshot without fetching; the cache never holds a failure's result
C1_KnowledgeCache == []C1_Returned /\ [][C1_Step]_vars

\* a second call answered from the cache, after a first that fetched
C1_Witness ==
    \E i \in Inv :
        /\ knowledgeReturned(i)
        /\ started = 2
        /\ ~issued(i, "fetch", "knowledge")
        /\ loc[i].knowledgeBase = Doc1

\* a parseable POST that carries a session identifier
wellFormed(r) == r.httpMethod = "POST" /\ r.bodyOk /\ Truthy(r.sessionId)

\* a request for the chat action: no recognized action, no legacy flag
chatRequest(r) ==
    /\ wellFormed(r)
    /\ r.action \notin SaveActions \cup {"loadHistory", "getDashboardData"}
    /\ ~r.loadHistory

\* the messages of the input set that are one of the four keys after trim
\* and lowercase, and the reply fixed for each
TrivialMessages == {ThankYouCaps, ByeSpaced}
canned(m) == IF m = ThankYouCaps THEN Welcome ELSE Goodbye

trivialTurn(i) == chatRequest(req[i]) /\ req[i].message \in TrivialMessages

\* the chat_history rows a stored exchange adds
storedPair(chat, sessionId, message, reply) ==
    chat \o << [session_id |-> sessionId, role |-> "user", content |-> message,
                created_at |-> Len(chat) + 1],
               [session_id |-> sessionId, role |-> "assistant", content |-> reply,
                created_at |-> Len(chat) + 2] >>

\* C2, on every state: a trivial turn issues the pair's insert and nothing
\* else, and is answered 200 with the key's canned reply
C2_Trivial ==
    \A i \in Inv : trivialTurn(i) =>
        /\ pc[i] \in {"import", "insert_trivial", "done"}
        /\ pc[i] # "import" => calls(i) = << <<"insert", "chat_history">> >>
        /\ pc[i] = "done" =>
              /\ resp[i].statusCode = 200
              /\ resp[i].kind = "reply"
              /\ resp[i].value = canned(req[i].message)

\* C2, on the step that settles the insert: the store holds the pair
\* (message, canned reply) appended, or is as it was when it refused it
C2_Write ==
    \A i \in Inv : (trivialTurn(i) /\ pc[i] = "insert_trivial" /\ pc'[i] = "done") =>
        \/ db'.chat_history = storedPair(db.chat_history, req[i].sessionId,
                                         req[i].message, canned(req[i].message))
        \/ db'.chat_history = db.chat_history

\* C2 (amended): a chat request whose trimmed, lowercased message is thanks,
\* thank you, bye or goodbye is answered 200 with the fixed reply, issues
\* exactly one insert of the (user, assistant) pair and never calls the
\* generation service; the pair is stored unless the store refuses the insert
C2_TrivialTurn == []C2_Trivial /\ [][C2_Write]_vars

\* C2 as claimed: the pair is always written
C2_AlwaysWritten ==
    [][\A i \in Inv :
         (trivialTurn(i) /\ pc[i] = "insert_trivial" /\ pc'[i] = "done") =>
            db'.chat_history = storedPair(db.chat_history, req[i].sessionId,
                                          req[i].message, canned(req[i].message))]_vars

\* a trivial turn answered, its pair in the store
C2_Witness ==
    \E i \in Inv :
        /\ trivialTurn(i) /\ pc[i] = "done"
        /\ req[i].message = ByeSpaced
        /\ resp[i].value = Goodbye
        /\ Len(db.chat_history) >= 2
        /\ db.chat_history[Len(db.chat_history)].content = Goodbye
        /\ db.chat_history[Len(db.chat_history) - 1].content = ByeSpaced

\* the turns of a session as the store orders them, all columns
sessionRows(s) == orderAscending(filter(db.chat_history, s))

\* rows come in (user, assistant) pairs of one insert, oldest first
paired(rows) ==
    /\ Len(rows) % 2 = 0
    /\ \A k \in 1..Len(rows) :
         /\ rows[k].role = IF k % 2 = 1 THEN "user" ELSE "assistant"
         /\ k % 2 = 1 => rows[k + 1].created_at = rows[k].created_at + 1
         /\ k > 1 => rows[k - 1].created_at <= rows[k].created_at

\* what loadHistory returned to a finished invocation
historyReturned(i) ==
    /\ pc[i] = "done" /\ wellFormed(req[i])
    /\ resp[i].statusCode = 200 /\ resp[i].kind = "history"

\* C3 (amended): for every session, loadHistory returns exactly 2K rows, K
\* the number of answered chat turns whose insert the store accepted (K <= N,
\* the number of answered turns), in nondecreasing created_at order and made
\* of (user, assistant) pairs; never one turn of an exchange without the other
C3_PairsStored ==
    /\ \A s \in Sessions :
         /\ Len(selectAll(db.chat_history, s)) = 2 * turns[s].stored
         /\ turns[s].stored <= turns[s].answered
         /\ paired(sessionRows(s))
    /\ \A i \in Inv : historyReturned(i) =>
         /\ Len(resp[i].value) = 2 * turns[req[i].sessionId].stored
         /\ \A k \in 1..Len(resp[i].value) :
              resp[i].value[k].role = IF k % 2 = 1 THEN "user" ELSE "assistant"

\* C3 as claimed: 2N rows after N answered turns
C3_TwoPerTurn ==
    \A s \in Sessions :
        Len(selectAll(db.chat_history, s)) = 2 * turns[s].answered

\* loadHistory answered after a turn of the session was stored in this
\* lifetime
C3_Witness ==
    \E i \in Inv :
        /\ historyReturned(i)
        /\ req[i].sessionId = S1
        /\ turns[S1].stored = 1
        /\ Len(resp[i].value) = 2 * turns[S1].stored

\* the input set's message that misses the trivial lookup: a chat turn with
\* it goes on to memory, knowledge and generation
nonTrivialTurn(i) == chatRequest(req[i]) /\ req[i].message = Hi

\* the generation call of invocation i is in flight
generating(i) == nonTrivialTurn(i) /\ pc[i] = "generate"

\* the last n rows
mostRecent(rows, n) ==
    IF Len(rows) <= n THEN rows ELSE SubSeq(rows, Len(rows) - n + 1, Len(rows))

\* C4: the history turns of a generation request are the 12 most recent
\* turns of the session, oldest first (all of them when it holds at most 12)
C4_MostRecent ==
    \A i \in Inv : (generating(i) /\ ~loc[i].history.error) =>
        loc[i].history.data =
            roleContent(mostRecent(sessionRows(req[i].sessionId), HistoryLimit))

count(i, op) == Len(SelectSeq(log[i], LAMBDA c : c[1] = op))

\* C5: the turn sequence of a generation request is the user turn with
\* persona, knowledge and rules, the model acknowledgment, the history turns
\* read, in the store's order and with role user kept and any other role
\* sent as model, then the user turn with the new message; with an empty
\* history that is 3 turns; a turn makes exactly one generation call
C5_Contents ==
    \A i \in Inv : nonTrivialTurn(i) =>
        /\ pc[i] \in {"import", "select_memory", "fetch", "text", "generate",
                      "insert_chat", "done"}
        /\ count(i, "generate") =
              IF pc[i] \in {"generate", "insert_chat", "done"} THEN 1 ELSE 0
        /\ pc[i] = "generate" =>
              LET sent == loc[i].contents
                  read == IF loc[i].history.error THEN <<>>
                          ELSE SubSeq(selectAll(db.chat_history, req[i].sessionId),
                                      1, Len(loc[i].history.data))
                  first == sent[1].text
              IN /\ Len(sent) = Len(read) + 3
                 /\ Len(read) = Len(loc[i].history.data)
                 /\ sent[1].role = "user"
                 /\ first[1] = PersonaHead
                 /\ first[Len(first)] = RulesBlock
                 /\ \E k \in 1..Len(first) :
                       /\ first[k] = KnowledgeHeader
                       /\ SubSeq(first, k + 1, Len(first) - 1) = loc[i].knowledgeBase
                 /\ sent[2] = [role |-> "model", text |-> Acknowledgment]
                 /\ \A k \in 1..Len(read) :
                       /\ sent[2 + k].text = read[k].content
                       /\ sent[2 + k].role =
                             IF read[k].role = "user" THEN "user" ELSE "model"
                 /\ sent[Len(sent)] = [role |-> "user", text |-> req[i].message]

\* a generation request that carries one stored exchange between the
\* priming turns and the new message
C5_Witness ==
    \E i \in Inv :
        /\ generating(i)
        /\ Len(loc[i].contents) = 5
        /\ loc[i].contents[3].role = "user"
        /\ loc[i].contents[4].role = "model"
        /\ loc[i].contents[4].text = Goodbye

\* the text of the first extractor, candidates then response.text(), that
\* yields non-empty text; <<>> when neither does
firstNonEmpty(result) ==
    IF result.candidates.shape = "text" /\ Truthy(result.candidates.text)
    THEN result.candidates.text
    ELSE IF result.response.shape = "text" /\ Truthy(result.response.text)
    THEN result.response.text
    ELSE <<>>

\* the generation call of invocation i resolved, with loc[i].result
resolved(i) ==
    /\ nonTrivialTurn(i)
    /\ pc[i] \in {"insert_chat", "done"}
    /\ count(i, "generate") = 1
    /\ ~loc[i].result.rejects

\* C6: the reply is taken from the first extractor that yields non-empty
\* text, and the request fails with the empty/blocked-response error only
\* when neither extractor does
C6_FirstNonEmpty ==
    \A i \in Inv : resolved(i) =>
        /\ firstNonEmpty(loc[i].result) # <<>> =>
              ~(pc[i] = "done" /\ resp[i].statusCode = 500)
        /\ (pc[i] = "done" /\ resp[i].kind = "error"
              /\ resp[i].value = EmptyResponse) =>
              firstNonEmpty(loc[i].result) = <<>>

\* the generation call failed: it rejected, or neither extractor yields
\* non-empty text
generationFailed(result) == result.rejects \/ firstNonEmpty(result) = <<>>

\* the generation call of invocation i settled, with loc[i].result
settled(i) ==
    /\ nonTrivialTurn(i)
    /\ pc[i] \in {"insert_chat", "done"}
    /\ count(i, "generate") = 1

\* C7, on every state: a failed generation call ended the request with 500
\* and without an insert; the reply about to be stored or returned is not
\* empty
C7_Failed ==
    \A i \in Inv : settled(i) =>
        /\ generationFailed(loc[i].result) =>
              /\ pc[i] = "done"
              /\ resp[i].statusCode = 500 /\ resp[i].kind = "error"
              /\ ~issued(i, "insert", "chat_history")
        /\ pc[i] = "insert_chat" => Truthy(loc[i].responseText)
        /\ (pc[i] = "done" /\ resp[i].statusCode = 200) =>
              resp[i].kind = "reply" /\ Truthy(resp[i].value)

\* C7, on every step of a generated turn: chat_history changes only by the
\* insert of a pair whose assistant content is not empty, after a generation
\* call that did not fail
C7_Write ==
    \A i \in Inv : (nonTrivialTurn(i) /\ db'.chat_history # db.chat_history) =>
        /\ pc[i] = "insert_chat"
        /\ ~generationFailed(loc[i].result)
        /\ Len(db'.chat_history) = Len(db.chat_history) + 2
        /\ Truthy(db'.chat_history[Len(db'.chat_history)].content)

\* C7, on every state: no reply returned as an assistant turn and no
\* assistant row of chat_history is without content
C7_NeverEmpty ==
    /\ \A i \in Inv :
          (pc[i] = "done" /\ resp[i].statusCode = 200 /\ resp[i].kind = "reply")
              => Truthy(resp[i].value)
    /\ \A k \in 1..Len(db.chat_history) :
          db.chat_history[k].role = "assistant"
              => Truthy(db.chat_history[k].content)

\* C7: when the generation call throws or returns an empty or malformed
\* result the request ends with a 500 error and writes no chat_history row,
\* and no assistant turn without content is ever stored or returned
C7_NoEmptyReply == []C7_Failed /\ []C7_NeverEmpty /\ [][C7_Write]_vars

\* the part of C7 about the generation call alone
C7_GenerationFailure == []C7_Failed /\ [][C7_Write]_vars

\* every blank line turned back into the marker
RECURSIVE restoreBreak(_)
restoreBreak(t) ==
    IF Len(t) < 2 THEN t
    ELSE IF t[1] = "\n" /\ t[2] = "\n"
         THEN BREAK \o restoreBreak(SubSeq(t, 3, Len(t)))
         ELSE <<Head(t)>> \o restoreBreak(Tail(t))

hasMarker(t) ==
    \E k \in 1..Len(t) :
        k + Len(BREAK) - 1 <= Len(t) /\ SubSeq(t, k, k + Len(BREAK) - 1) = BREAK

\* a generated turn answered with its reply
replied(i) ==
    settled(i) /\ pc[i] = "done" /\ resp[i].statusCode = 200

\* C8, on every state: the reply returned is the extracted text with its
\* markers replaced by blank lines, and holds no marker
C8_Reply ==
    \A i \in Inv : replied(i) =>
        /\ resp[i].kind = "reply"
        /\ ~hasMarker(resp[i].value)
        /\ restoreBreak(resp[i].value) = firstNonEmpty(loc[i].result)

\* C8, on the step that settles the insert: the assistant turn stored, if
\* any, has the content of the reply returned
C8_Write ==
    \A i \in Inv : (nonTrivialTurn(i) /\ pc[i] = "insert_chat" /\ pc'[i] = "done") =>
        \/ db'.chat_history = db.chat_history
        \/ db'.chat_history = storedPair(db.chat_history, req[i].sessionId,
                                         req[i].message, resp'[i].value)

\* C8: the reply of a successful generated turn is the extracted text with
\* every ---BREAK--- replaced by two newlines, no marker is left in it, and
\* the assistant turn stored for the request has the reply's content
C8_BreakReplaced == []C8_Reply /\ [][C8_Write]_vars

\* a reply whose text held three markers, two of them overlapping, stored
C8_Witness ==
    \E i \in Inv :
        /\ replied(i)
        /\ loc[i].result.response.text = Broken
        /\ resp[i].value = <<"a", "\n", "\n", "b", "\n", "\n",
                             "B", "R", "E", "A", "K", "-", "-", "-">>
        /\ db.chat_history # <<>>
        /\ db.chat_history[Len(db.chat_history)].content = resp[i].value

\* a parseable POST without a session identifier
noSession(r) == r.httpMethod = "POST" /\ r.bodyOk /\ ~Truthy(r.sessionId)

\* a chat request without a message
noMessage(r) == chatRequest(r) /\ ~Truthy(r.message)

\* C9: a POST without a session identifier is answered 400 whatever its
\* action, a chat request without a message is answered 400, and neither
\* issues a store read, a store insert, a knowledge fetch or a generation call
C9_ClientErrors ==
    \A i \in Inv : (noSession(req[i]) \/ noMessage(req[i])) =>
        /\ pc[i] \in {"import", "done"}
        /\ calls(i) = <<>>
        /\ pc[i] = "done" =>
              /\ resp[i].statusCode = 400
              /\ resp[i].kind = "error"
              /\ resp[i].value = IF noSession(req[i]) THEN "Missing Session ID"
                                 ELSE "Missing Message"

\* a save request with its userDetails but no session identifier, refused
C9_Witness ==
    \E i \in Inv :
        /\ pc[i] = "done"
        /\ noSession(req[i])
        /\ req[i].action = "saveOrder" /\ req[i].userDetails = "object"
        /\ resp[i].statusCode = 400
        /\ db.orders = <<>>

\* each save action's own table
ownTable(action) ==
    CASE action = "saveLead" -> "leads"
      [] action = "saveOrder" -> "orders"
      [] action = "saveConsultation" -> "consultations"
      [] action = "saveTicket" -> "tickets"

\* a save request with a session identifier and a userDetails object
saveRequest(r) ==
    wellFormed(r) /\ r.action \in SaveActions /\ r.userDetails = "object"

\* C10, on every state: the save request issues one insert, into its own
\* table, and no other call; saveLead is answered {success:true}
C10_OneInsert ==
    \A i \in Inv : saveRequest(req[i]) =>
        /\ pc[i] \in {"import", "insert_record", "done"}
        /\ pc[i] # "import" =>
              calls(i) = << <<"insert", ownTable(req[i].action)>> >>
        /\ (pc[i] = "done" /\ req[i].action = "saveLead") =>
              /\ resp[i].statusCode = 200
              /\ resp[i].kind = "success"
              /\ resp[i].value = TRUE

\* C10, on every step of a save request: no table but its own changes, and
\* its own gains at most the one row of the request's session
C10_Frame ==
    \A i \in Inv : (saveRequest(req[i]) /\ pc[i] # "done") =>
        /\ \A t \in Tables \ {ownTable(req[i].action)} : db'[t] = db[t]
        /\ LET own == ownTable(req[i].action)
           IN \/ db'[own] = db[own]
              \/ /\ pc[i] = "insert_record"
                 /\ Len(db'[own]) = Len(db[own]) + 1
                 /\ SubSeq(db'[own], 1, Len(db[own])) = db[own]
                 /\ db'[own][Len(db'[own])].session_id = req[i].sessionId

\* C10: a save action with a userDetails object performs exactly one insert,
\* into its own table, neither reads nor writes chat_history nor calls the
\* generation service, message or not; saveLead always answers {success:true}
C10_SaveActions == []C10_OneInsert /\ [][C10_Frame]_vars

\* saveOrder carrying a message: one order row, no chat turn
C10_Witness ==
    \E i \in Inv :
        /\ saveRequest(req[i]) /\ pc[i] = "done"
        /\ req[i].action = "saveOrder"
        /\ req[i].message = Hi
        /\ Len(db.orders) = 1
        /\ db.chat_history = <<>>
        /\ resp[i].statusCode = 200

\* a parseable POST with a session identifier, no action field and a
\* non-empty message
chatShaped(r) == wellFormed(r) /\ r.action = "undefined" /\ Truthy(r.message)

\* invocation i runs the chat turn's code: it is at one of the chat turn's
\* awaits, or it returned the reply after issuing the turn pair's insert, or
\* it returned the 500 of a generation call that gave no reply
chatPath(i) ==
    /\ pc[i] \in {"import", "insert_trivial", "select_memory", "fetch", "text",
                  "generate", "insert_chat", "done"}
    /\ pc[i] = "done" =>
          \/ /\ resp[i].statusCode = 200 /\ resp[i].kind = "reply"
             /\ count(i, "insert") = 1
             /\ issued(i, "insert", "chat_history")
          \/ /\ resp[i].statusCode = 500 /\ resp[i].kind = "error"
             /\ count(i, "generate") = 1
             /\ count(i, "insert") = 0

\* invocation i runs the loadHistory code: one read of chat_history, then
\* the history or the read's error
historyPath(i) ==
    /\ pc[i] \in {"import", "select_all", "done"}
    /\ pc[i] # "import" => calls(i) = << <<"select", "chat_history">> >>
    /\ pc[i] = "done" =>
          \/ resp[i].statusCode = 200 /\ resp[i].kind = "history"
          \/ resp[i].statusCode = 500 /\ resp[i].kind = "error"

\* C11 as stated: every POST with a session identifier, no action field and
\* a non-empty message is handled as a chat turn, whatever else the body
\* carries, the loadHistory flag included
C11_AlwaysChat ==
    \A i \in Inv : chatShaped(req[i]) => chatPath(i)

\* C11: every POST with a session identifier, no action field, a non-empty
\* message and no loadHistory flag is handled as a chat turn whatever else
\* the body carries; with the flag set it is handled as loadHistory, the
\* message unused
C11_ChatUnlessFlag ==
    \A i \in Inv : chatShaped(req[i]) =>
        IF req[i].loadHistory THEN historyPath(i) ELSE chatPath(i)

\* a generated chat turn answered for a body that also carries a userName
C11_Witness ==
    \E i \in Inv :
        /\ chatShaped(req[i]) /\ ~req[i].loadHistory
        /\ req[i].userName = UserName /\ req[i].message = Hi
        /\ pc[i] = "done" /\ resp[i].kind = "reply"
        /\ turns[S1].stored = 1

\* a dashboard request that reaches the action's code
dashboardRequest(r) ==
    wellFormed(r) /\ r.action = "getDashboardData" /\ ~r.loadHistory

\* C12: a getDashboardData request whose adminSecret differs from the
\* configured credential is answered 401 and issues no store read and no
\* store write; the four table reads are issued only by a request whose
\* secret equals the credential. The 401 is stated for deployments whose
\* generation client loads.
C12_SecretFirst ==
    \A i \in Inv : dashboardRequest(req[i]) =>
        IF req[i].adminSecret # env.ADMIN_PASSWORD
        THEN /\ pc[i] \in {"import", "done"}
             /\ calls(i) = <<>>
             /\ (pc[i] = "done" /\ env.genai) =>
                   /\ resp[i].statusCode = 401
                   /\ resp[i].kind = "error"
                   /\ resp[i].value = "Invalid Password"
        ELSE \A k \in 1..Len(calls(i)) : calls(i)[k][1] = "select"

\* a wrong secret refused while the leads table holds a row
C12_Witness ==
    \E i \in Inv :
        /\ dashboardRequest(req[i]) /\ pc[i] = "done"
        /\ req[i].adminSecret = WrongPassword
        /\ env.ADMIN_PASSWORD = Password
        /\ resp[i].statusCode = 401
        /\ Len(db.leads) = 1

\* the step on which a save request's insert settles with the store's error
insertRefused(i) ==
    /\ saveRequest(req[i])
    /\ pc[i] = "insert_record" /\ pc'[i] = "done"
    /\ db' = db

\* C13: for each of the four record-capture actions, when the store's insert
\* reports an error the caller receives a server error, not {success:true},
\* and the insert is not issued again
C13_ErrorSurfaced ==
    [][\A i \in Inv : insertRefused(i) =>
          /\ resp'[i].statusCode = 500
          /\ resp'[i].kind = "error"
          /\ count(i, "insert") = 1 /\ log'[i] = log[i]]_vars

\* a POST whose body JSON.parse rejects
malformed(r) == r.httpMethod = "POST" /\ ~r.bodyOk

\* C14: a POST whose body does not parse as a JSON object is answered with a
\* 4xx status, never a 5xx, and issues no store or generation call
C14_MalformedRefused ==
    \A i \in Inv : malformed(req[i]) =>
        /\ calls(i) = <<>>
        /\ pc[i] = "done" =>
              /\ resp[i].kind = "error"
              /\ resp[i].statusCode \in 400..499

\* a loadHistory request that reaches the action's code
historyRequest(r) ==
    /\ wellFormed(r) /\ r.action \notin SaveActions
    /\ (r.loadHistory \/ r.action = "loadHistory")

\* C15: when the chat_history read of loadHistory reports an error, or any
\* one of the four reads of getDashboardData does, the response is a 500
\* error body that carries no history and no dashboard data, whole or partial
C15_ReadErrorFatal ==
    \A i \in Inv :
        /\ (historyRequest(req[i]) /\ pc[i] = "done" /\ loc[i].readError) =>
              /\ resp[i].statusCode = 500
              /\ resp[i].kind = "error"
              /\ resp[i].value = "store error"
        /\ (dashboardRequest(req[i]) /\ loc[i].readError) =>
              /\ pc[i] \in {"select_orders", "select_tickets",
                            "select_consultations", "done"}
              /\ pc[i] = "done" =>
                    /\ resp[i].statusCode = 500
                    /\ resp[i].kind = "error"
                    /\ resp[i].value = "Database Error"

\* the history read of a session with a stored exchange fails: 500
C15_Witness ==
    \E i \in Inv :
        /\ historyRequest(req[i]) /\ pc[i] = "done"
        /\ loc[i].readError
        /\ resp[i].statusCode = 500
        /\ filter(db.chat_history, req[i].sessionId) # <<>>

\* the step on which a chat turn's insert settles with the store's error
writeRefused(i) ==
    /\ pc[i] \in {"insert_trivial", "insert_chat"} /\ pc'[i] = "done"
    /\ db' = db

\* C16: in a chat turn whose reply is computed, canned or generated, a failed
\* chat_history insert leaves the outcome as it is: 200 with the reply, the
\* store untouched, no second insert issued
C16_WriteBestEffort ==
    [][\A i \in Inv : (writeRefused(i) /\ (trivialTurn(i) \/ nonTrivialTurn(i))) =>
          /\ resp'[i].statusCode = 200
          /\ resp'[i].kind = "reply"
          /\ resp'[i].value = IF trivialTurn(i) THEN canned(req[i].message)
                              ELSE loc[i].responseText
          /\ Truthy(resp'[i].value)
          /\ count(i, "insert") = 1 /\ log'[i] = log[i]]_vars

\* a generated reply returned though the store refused the turn pair
C16_Witness ==
    \E i \in Inv :
        /\ nonTrivialTurn(i) /\ pc[i] = "done"
        /\ resp[i].statusCode = 200 /\ resp[i].value = Ok
        /\ turns[S1].answered = 1 /\ turns[S1].stored = 0
        /\ db.chat_history = <<>>

\* the knowledge fetch of invocation i settled with a status other than 200
\* or threw: no body was read
fetchFailed(i) ==
    /\ nonTrivialTurn(i)
    /\ issued(i, "fetch", "knowledge") /\ pc[i] # "fetch"
    /\ ~issued(i, "text", "knowledge")

\* C17, on every state: a turn whose knowledge fetch failed goes on to its
\* one generation call, sends a first turn with the persona text, an empty
\* knowledge section and the rules block, and ends as the generation result
\* decides: 200 with the reply after the pair's insert was issued, or 500
\* when the handler got no reply text
C17_Degraded ==
    \A i \in Inv : fetchFailed(i) =>
        /\ pc[i] \in {"generate", "insert_chat", "done"}
        /\ count(i, "generate") = 1
        /\ pc[i] = "generate" =>
              LET first == loc[i].contents[1].text
              IN /\ loc[i].knowledgeBase = <<>>
                 /\ first[1] = PersonaHead
                 /\ \E k \in 1..Len(first) : first[k] = PersonaBody
                 /\ first[Len(first) - 1] = KnowledgeHeader
                 /\ first[Len(first)] = RulesBlock
        /\ pc[i] = "done" =>
              IF Truthy(loc[i].responseText)
              THEN /\ resp[i].statusCode = 200 /\ resp[i].kind = "reply"
                   /\ resp[i].value = loc[i].responseText
                   /\ issued(i, "insert", "chat_history")
              ELSE /\ resp[i].statusCode = 500 /\ resp[i].kind = "error"
                   /\ ~issued(i, "insert", "chat_history")

\* C17, on the step that settles the insert of such a turn: the store holds
\* the pair (message, reply) appended, or is as it was when it refused it
C17_Write ==
    \A i \in Inv : (fetchFailed(i) /\ pc[i] = "insert_chat" /\ pc'[i] = "done") =>
        \/ db'.chat_history = storedPair(db.chat_history, req[i].sessionId,
                                         req[i].message, resp'[i].value)
        \/ db'.chat_history = db.chat_history

\* C17 (amended): a knowledge fetch failure never aborts a chat turn: the
\* generation call is made with the knowledge section empty and the persona
\* text and rules block in the first turn; when the handler gets reply text
\* it returns 200 with the reply after issuing the pair's insert, and the
\* pair is stored unless the store refuses the insert
C17_FetchFailOpen == []C17_Degraded /\ [][C17_Write]_vars

\* C17 as claimed: the answered turn's pair is always persisted
C17_AlwaysPersisted ==
    [][\A i \in Inv :
         (fetchFailed(i) /\ pc[i] = "insert_chat" /\ pc'[i] = "done") =>
            db'.chat_history = storedPair(db.chat_history, req[i].sessionId,
                                          req[i].message, resp'[i].value)]_vars

\* a turn answered and stored after its knowledge fetch failed
C17_Witness ==
    \E i \in Inv :
        /\ fetchFailed(i) /\ pc[i] = "done"
        /\ resp[i].statusCode = 200 /\ resp[i].value = Ok
        /\ cachedKnowledge = null
        /\ turns[S1].stored = 1

\* the bodies the handler returns
ResponseKinds == {"text", "reply", "history", "success", "dashboard", "error"}

\* C18: every invocation ends by returning a response, never by an uncaught
\* exception; a failure while handling a POST, the failure to load the
\* generation client included, becomes a JSON {error} body with a non-2xx
\* status
C18_AlwaysResponse ==
    \A i \in Inv : pc[i] = "done" =>
        /\ resp[i].kind \in ResponseKinds
        /\ resp[i].statusCode \in 200..599
        /\ resp[i].kind = "error" => resp[i].statusCode \notin 200..299

\* the turns of session s in the store, in arrival order, as role and content
turnsOf(chat, s) ==
    LET own == SelectSeq(chat, LAMBDA row : row.session_id = s)
    IN [k \in 1..Len(own) |-> [role |-> own[k].role, content |-> own[k].content]]

\* C19, on every state: the history loadHistory returned for a session is
\* that session's turns and no other, and the history a chat turn read for
\* its prompt is made of turns of its own session
C19_OwnTurns ==
    \A i \in Inv :
        /\ historyReturned(i) =>
              resp[i].value = turnsOf(db.chat_history, req[i].sessionId)
        /\ (chatRequest(req[i]) /\ pc[i] \in {"fetch", "text", "generate"}) =>
              /\ Len(loc[i].history.data) <=
                    Len(turnsOf(db.chat_history, req[i].sessionId))
              /\ loc[i].history.data =
                    SubSeq(turnsOf(db.chat_history, req[i].sessionId),
                           1, Len(loc[i].history.data))
        /\ pc[i] = "generate" =>
              \A k \in 1..Len(loc[i].history.data) :
                  loc[i].contents[2 + k].text = loc[i].history.data[k].content

\* C19, on every step: a step of a request for another session, or for none,
\* leaves the turns loadHistory returns for session s as they were
C19_OthersApart ==
    \A s \in Sessions :
        (\A i \in Inv : pc'[i] # pc[i] => req'[i].sessionId # s) =>
            turnsOf(db'.chat_history, s) = turnsOf(db.chat_history, s)

\* C19: chat memory is session-scoped: loadHistory for s returns only turns
\* of s, the history in a chat prompt for s holds only turns of s, and no
\* chat, loadHistory or save request on another session changes what
\* loadHistory returns for s
C19_SessionScoped == []C19_OwnTurns /\ [][C19_OthersApart]_vars

\* the history of one session returned, exactly its one exchange, after a
\* turn of another session was stored
C19_Witness ==
    \E i \in Inv :
        /\ historyReturned(i) /\ req[i].sessionId = S2
        /\ Len(resp[i].value) = 2
        /\ resp[i].value[1].content = Hi
        /\ turns[S1].stored = LongHistory + 1
        /\ Len(db.chat_history) = 2 * LongHistory + 4

\* t is the start of d
prefix(t, d) == Len(t) <= Len(d) /\ t = SubSeq(d, 1, Len(t))

\* the characters between the knowledge header and the rules block
knowledgeSection(first) ==
    LET k == CHOOSE j \in 1..Len(first) : first[j] = KnowledgeHeader
    IN SubSeq(first, k + 1, Len(first) - 1)

\* C20: in every reachable state the cached knowledge snapshot, when set, is
\* the start of a document that was fetched and has at most 20,000
\* characters, and the knowledge text in a prompt has at most 20,000
C20_SnapshotBounded ==
    /\ cachedKnowledge # null =>
          /\ Len(cachedKnowledge) <= 20000
          /\ \E d \in KnowledgeDocs : prefix(cachedKnowledge, d)
    /\ \A i \in Inv : pc[i] = "generate" =>
          /\ Len(knowledgeSection(loc[i].contents[1].text)) <= 20000
          /\ knowledgeSection(loc[i].contents[1].text) = loc[i].knowledgeBase

\* a prompt that carries the snapshot cut from the long document
C20_Witness ==
    \E i \in Inv :
        /\ pc[i] = "generate"
        /\ Len(cachedKnowledge) = 20000
        /\ prefix(cachedKnowledge, LongDoc)
        /\ knowledgeSection(loc[i].contents[1].text) = cachedKnowledge

\* a chat request that carries a message
chatMessage(r) == chatRequest(r) /\ Truthy(r.message)

\* invocation i answered from the fixed mapping, without a history read
shortCircuited(i) ==
    /\ chatMessage(req[i]) /\ pc[i] = "done"
    /\ issued(i, "insert", "chat_history")
    /\ count(i, "select") = 0

\* C21: the trivial short-circuit fires for the four fixed keys and no other
\* text: a chat message that is none of them after trim and lowercase,
\* constructor for one, goes to the history read, the knowledge retrieval and
\* the generation call; the reply of a short-circuited turn is one of the two
\* fixed replies
C21_FourKeysOnly ==
    \A i \in Inv :
        /\ (chatMessage(req[i]) /\ req[i].message \notin TrivialMessages) =>
              /\ pc[i] \in {"import", "select_memory", "fetch", "text",
                            "generate", "insert_chat", "done"}
              /\ pc[i] # "import" => calls(i)[1] = <<"select", "chat_history">>
        /\ shortCircuited(i) =>
              /\ resp[i].statusCode = 200 /\ resp[i].kind = "reply"
              /\ resp[i].value \in {Welcome, Goodbye}

\* the step on which getKnowledgeBase is entered by invocation i
knowledgeCalled(i) == pc[i] = "select_memory" /\ pc'[i] # "select_memory"

\* C22: under any interleaving of concurrent cold chat turns, once the cache
\* holds a non-empty snapshot its value never changes, and every
\* getKnowledgeBase call that starts after that returns that snapshot
C22_SnapshotStable ==
    [][Truthy(cachedKnowledge) =>
          /\ cachedKnowledge' = cachedKnowledge
          /\ \A i \in Inv : knowledgeCalled(i) =>
                /\ pc'[i] = "generate"
                /\ loc'[i].knowledgeBase = cachedKnowledge]_vars

\* the step on which invocation i constructs and assigns the client
constructs(i) == pc[i] = "import" /\ pc'[i] # "import" /\ ai'

\* C23: the generation client is constructed at most once per process
\* lifetime under any interleaving: no invocation constructs and assigns a
\* client when the handle is already set
C23_ConstructedOnce ==
    [][\A i \in Inv : constructs(i) => ~ai]_vars

\* the call sequences of a generated turn: history read, knowledge
\* retrieval (from the cache, or a fetch and its body read), generation
\* call, write
Read == <<"select", "chat_history">>
Fetch == <<"fetch", "knowledge">>
Body == <<"text", "knowledge">>
Generate == <<"generate", "gemini-2.5-flash">>
Write == <<"insert", "chat_history">>
TurnOrders ==
    { <<Read, Generate, Write>>,
      <<Read, Fetch, Generate, Write>>,
      <<Read, Fetch, Body, Generate, Write>> }

\* the calls of invocation i so far are the start of one of the orders, each
\* issued when the one before it had settled, the write after usable text
ordered(i) ==
    /\ \E o \in TurnOrders : prefix(calls(i), o)
    /\ Len(calls(i)) =
          CASE pc[i] = "import" -> 0
            [] pc[i] = "select_memory" -> 1
            [] pc[i] = "fetch" -> 2
            [] pc[i] = "text" -> 3
            [] OTHER -> Len(calls(i))
    /\ pc[i] \in {"select_memory", "fetch", "text", "generate", "insert_chat"} =>
          calls(i)[Len(calls(i))][1] =
             CASE pc[i] = "select_memory" -> "select"
               [] pc[i] = "insert_chat" -> "insert"
               [] OTHER -> pc[i]
    /\ issued(i, "insert", "chat_history") => Truthy(loc[i].responseText)

\* C24: within a non-trivial chat turn the external calls are issued in the
\* order history read, knowledge retrieval, generation call, write, the
\* generation call after the read and the retrieval settled and the write
\* after the generation call gave usable text; a trivial chat turn issues
\* the write alone
C24_CallOrder ==
    \A i \in Inv : chatMessage(req[i]) =>
        IF req[i].message \in TrivialMessages
        THEN calls(i) \in {<<>>, <<Write>>}
        ELSE ordered(i)

\* C25: a getDashboardData request that carries no adminSecret is never
\* answered with the dashboard data and issues no store read, whatever the
\* deployment's configuration, no credential configured included
C25_NoSecretNoData ==
    \A i \in Inv :
        (dashboardRequest(req[i]) /\ req[i].adminSecret = undefined) =>
            /\ calls(i) = <<>>
            /\ pc[i] \in {"import", "done"}
            /\ pc[i] = "done" => resp[i].kind # "dashboard"

\* the memory read of a generated turn settled with the store's error
readFailed(i) ==
    nonTrivialTurn(i) /\ loc[i].readError /\ pc[i] # "select_memory"

\* C26, on every state: a turn whose history read failed goes on to its one
\* generation call, whose request holds the two priming turns and the new
\* message and nothing else, and ends as the generation result decides
C26_Degraded ==
    \A i \in Inv : readFailed(i) =>
        /\ pc[i] \in {"fetch", "text", "generate", "insert_chat", "done"}
        /\ pc[i] \in {"generate", "insert_chat", "done"} => count(i, "generate") = 1
        /\ pc[i] = "generate" =>
              LET sent == loc[i].contents
              IN /\ Len(sent) = 3
                 /\ sent[1].role = "user" /\ sent[1].text[1] = PersonaHead
                 /\ sent[2] = [role |-> "model", text |-> Acknowledgment]
                 /\ sent[3] = [role |-> "user", text |-> req[i].message]
        /\ pc[i] = "done" =>
              IF Truthy(loc[i].responseText)
              THEN /\ resp[i].statusCode = 200 /\ resp[i].kind = "reply"
                   /\ resp[i].value = loc[i].responseText
                   /\ issued(i, "insert", "chat_history")
              ELSE /\ resp[i].statusCode = 500 /\ resp[i].kind = "error"
                   /\ ~issued(i, "insert", "chat_history")

\* C26, on the step that settles the insert of such a turn: the store holds
\* the pair (message, reply) appended, or is as it was when it refused it
C26_Write ==
    \A i \in Inv : (readFailed(i) /\ pc[i] = "insert_chat" /\ pc'[i] = "done") =>
        \/ db'.chat_history = storedPair(db.chat_history, req[i].sessionId,
                                         req[i].message, resp'[i].value)
        \/ db'.chat_history = db.chat_history

\* C26 (amended): a failed chat_history read in a non-trivial chat turn is
\* not fatal: the generation request holds the two priming turns and the new
\* user turn only; when the handler gets reply text it returns 200 with the
\* reply after issuing the pair's insert, and the pair is stored unless the
\* store refuses the insert
C26_ReadFailOpen == []C26_Degraded /\ [][C26_Write]_vars

\* C26 as claimed: the answered turn's pair is always written
C26_AlwaysWritten ==
    [][\A i \in Inv :
         (readFailed(i) /\ pc[i] = "insert_chat" /\ pc'[i] = "done") =>
            db'.chat_history = storedPair(db.chat_history, req[i].sessionId,
                                          req[i].message, resp'[i].value)]_vars

\* a second turn of a session answered and stored though its history read
\* failed
C26_Witness ==
    \E i \in Inv :
        /\ readFailed(i) /\ pc[i] = "done"
        /\ resp[i].statusCode = 200 /\ resp[i].value = Ok
        /\ turns[S1].stored = 2

====
